---- MODULE Spec2Model ----
(***************************************************************************)
(* Fotoperiodo (src/src/App.jsx): a light/dark schedule given by a start   *)
(* instant, hours of light, hours of dark and a duration in days.  The     *)
(* component's state is the four configuration fields and the sampled      *)
(* instant `now`; everything else is recomputed from them on every render. *)
(*                                                                         *)
(* Numbers are fixed-point: a JavaScript number x is the integer x*Scale.  *)
(* Instants are hours since local midnight of the day the page was opened, *)
(* in the same fixed-point (with Scale = 100 one unit is 36 seconds).      *)
(* The code's 0.0000001 is below that resolution and is modelled as the    *)
(* smallest positive quantity of the grid, Epsilon.                        *)
(***************************************************************************)
EXTENDS Integers, FiniteSets, Sequences, TLC

VARIABLES startDate, hoursLight, hoursDark, durationDays, now, startDateObj,
          errorMsg, validationPending, alert,
          storage, saveTimers, mounted,
          isExporting, exportTask

vars == <<startDate, hoursLight, hoursDark, durationDays, now, startDateObj,
          errorMsg, validationPending, alert,
          storage, saveTimers, mounted,
          isExporting, exportTask>>

\* localStorage[STORAGE_KEY], the pending setTimeout callbacks of the autosave
\* (each with the payload its render captured), and whether the effects of the
\* mount have run
persistence == <<storage, saveTimers, mounted>>

\* the guard of the calendar download and the stage of the download under way
exporting == <<isExporting, exportTask>>

\* the four fields of the configuration
config == <<startDate, hoursLight, hoursDark, durationDays>>

----------------------------------------------------------------------------
(* Resolution and input bounds of the model *)

Scale == 100

RenderLag == 1

CheckedRows == 2

H(x) == x * Scale

Half == Scale \div 2

HOUR == H(1)

DAY == H(24)

Epsilon == 1

(* Program constants *)
DefaultHoursLight == 13
DefaultHoursDark == 14
DefaultDurationDays == 60
MinDays == 1
MaxDays == 9999
InputMin == 0
InputMax == 9999

----------------------------------------------------------------------------
(* The strings a start date can be: empty, unparsable, or a local date-time *)

StartEmpty == [kind |-> "empty", t |-> 0]
StartBad == [kind |-> "bad", t |-> 0]
StartAt(t) == [kind |-> "date", t |-> t]

(* JSON values of an import payload field *)
Absent == [k |-> "absent", n |-> 0]
Null == [k |-> "null", n |-> 0]
Num(n) == [k |-> "num", n |-> n]
NumStr(n) == [k |-> "numstr", n |-> n]
Str == [k |-> "str", n |-> 0]
EmptyStr == [k |-> "emptystr", n |-> 0]
NaN == [k |-> "nan", n |-> 0]

(* Inputs drawn by the actions *)
InitInstants == {H(9) + Half + 1}
TickInstants == {H(13), H(30), H(37) + Half}
StartChoices == {StartEmpty, StartAt(0), StartAt(H(6)), StartAt(H(12) + Half), StartAt(H(30))}
TypedValues(i) ==
    CASE i = 0 -> {NumStr(-H(1)), NumStr(H(12)), NumStr(H(13))}
      [] i = 1 -> {EmptyStr, NumStr(H(12)), NumStr(H(14))}
      [] i = 2 -> {NumStr(0), NumStr(H(1) + Half), NumStr(H(2))}
\* localStorage.getItem(STORAGE_KEY) === null
NoItem == [kind |-> "none"]

PayloadLight == {Absent, Null, Num(-H(5))}
PayloadDark == {Absent, Str, Num(-H(5))}
PayloadDays == {Absent, NumStr(-H(5)), Num(H(10000))}
PayloadStarts == {[k |-> "absent", s |-> StartEmpty], [k |-> "str", s |-> StartEmpty],
                  [k |-> "str", s |-> StartBad], [k |-> "str", s |-> StartAt(H(6))]}
Payloads ==
    [kind : {"object"}, startDate : PayloadStarts, hoursLight : PayloadLight,
     hoursDark : PayloadDark, durationDays : PayloadDays]
    \cup {[kind |-> k, startDate |-> [k |-> "absent", s |-> StartEmpty], hoursLight |-> Absent,
           hoursDark |-> Absent, durationDays |-> Absent] : k \in {"unparsable", "null"}}

----------------------------------------------------------------------------
(* Helpers *)

Max(a, b) == IF a >= b THEN a ELSE b
Min(a, b) == IF a <= b THEN a ELSE b

\* function clamp(n, min, max) { return Math.max(min, Math.min(max, n)); }
clamp(n, min, max) == Max(min, Min(max, n))

\* JavaScript's a % b for b > 0: the remainder has the sign of the dividend
jsRem(a, b) == IF a >= 0 THEN a % b ELSE -((-a) % b)

\* Number(x) for a JSON value x (undefined and non-numeric strings give NaN,
\* null gives 0)
Number(v) ==
    CASE v.k = "num" -> v
      [] v.k = "numstr" -> Num(v.n)
      [] v.k = "null" -> Num(0)
      [] v.k = "emptystr" -> Num(0)
      [] OTHER -> NaN

NumberIsFinite(x) == x.k = "num"

\* x || 0 for a number x: NaN and 0 are falsy
OrZero(x) == IF x.k = "nan" \/ x.n = 0 THEN 0 ELSE x.n

\* d.setHours(0, 0, 0, 0)
StartOfDay(t) == t - (t % DAY)

\* fmtDateTimeLocal(d): "YYYY-MM-DDTHH:mm", the seconds are dropped
fmtDateTimeLocal(d) ==
    LET minutes == ((d % HOUR) * 60) \div HOUR
    IN  StartAt(d - (d % HOUR) + (minutes * HOUR) \div 60)

\* new Date(startDate), with the fallback of startDateObj: new Date() at the
\* moment of the render, w
ParseStart(s, w) == IF s.kind = "date" THEN s.t ELSE w

\* the wall-clock instants a render after the last tick can read
RenderInstants == {now + RenderLag}

----------------------------------------------------------------------------
(* Derived values (useMemo), recomputed from the state on every render *)

cycleLength_zeroAllowed ==
    LET sum == hoursLight + hoursDark
    IN  IF sum >= 0 THEN sum ELSE Epsilon

cycleLength ==
    LET sum == hoursLight + hoursDark
    IN  IF sum > 0 THEN sum ELSE Epsilon

\* Date getters of a local instant; getSeconds drops what is below a second
getHours(t) == (t % DAY) \div HOUR
getMinutes(t) == ((t % HOUR) * 60) \div HOUR
getSeconds(t) == (((t % HOUR) * 3600) \div HOUR) % 60

\* getHours() + getMinutes() / 60 + getSeconds() / 3600
fractionalStartOffset ==
    getHours(startDateObj) * HOUR
      + ((getMinutes(startDateObj) * 60 + getSeconds(startDateObj)) * HOUR) \div 3600

\* (asOf.getTime() - startDateObj.getTime()) / (1000 * 60 * 60)
elapsedHours(asOf) == asOf - startDateObj

hoursSinceStartNow == elapsedHours(now)

\* ((elapsed % cycleLength) + cycleLength) % cycleLength
positionInCycle_noWrap(elapsed) == jsRem(elapsed, cycleLength)

positionInCycle(elapsed) ==
    jsRem(jsRem(elapsed, cycleLength) + cycleLength, cycleLength)

currentInCycle == positionInCycle(hoursSinceStartNow)

isNowLight_le == currentInCycle <= hoursLight

\* currentInCycle < Number(hoursLight)
isNowLight == currentInCycle < hoursLight

\* isNowLight as a render with now = asOf computes it
isLightAtInstant(asOf) == positionInCycle(elapsedHours(asOf)) < hoursLight

inCycle(hoursSinceStart) ==
    jsRem(jsRem(hoursSinceStart, cycleLength) + cycleLength, cycleLength)

isLightAtAbsoluteHours_le(hoursSinceStart) == inCycle(hoursSinceStart) <= hoursLight

isLightAtAbsoluteHours(hoursSinceStart) == inCycle(hoursSinceStart) < hoursLight

\* a - b for two fractions [num, den]
FracSub(a, b) == [num |-> a.num * b.den - b.num * a.den, den |-> a.den * b.den]

energyBalance_lightOverDark ==
    IF hoursSinceStartNow < 0 THEN [num |-> 0, den |-> 1]
    ELSE LET lightHoursConsumedCustom ==
                 [num |-> hoursLight * hoursSinceStartNow, den |-> hoursDark]
             lightHoursConsumedStandard == [num |-> hoursSinceStartNow, den |-> 2]
         IN  FracSub(lightHoursConsumedStandard, lightHoursConsumedCustom)

energyBalance_signFlipped ==
    IF hoursSinceStartNow < 0 THEN [num |-> 0, den |-> 1]
    ELSE LET lightHoursConsumedCustom ==
                 [num |-> hoursLight * hoursSinceStartNow, den |-> cycleLength]
             lightHoursConsumedStandard == [num |-> hoursSinceStartNow, den |-> 2]
         IN  FracSub(lightHoursConsumedCustom, lightHoursConsumedStandard)

energyBalance_noGuard ==
    LET lightHoursConsumedCustom ==
            [num |-> hoursLight * hoursSinceStartNow, den |-> cycleLength]
        lightHoursConsumedStandard == [num |-> hoursSinceStartNow, den |-> 2]
    IN  FracSub(lightHoursConsumedStandard, lightHoursConsumedCustom)

\* energy balance vs 12/12, as the exact fraction num / den:
\* (hoursLight / cycleLength) * t is [hoursLight * t, cycleLength], 0.5 * t is [t, 2]
energyBalance ==
    IF hoursSinceStartNow < 0 THEN [num |-> 0, den |-> 1]
    ELSE LET lightHoursConsumedCustom ==
                 [num |-> hoursLight * hoursSinceStartNow, den |-> cycleLength]
             lightHoursConsumedStandard == [num |-> hoursSinceStartNow, den |-> 2]
         IN  FracSub(lightHoursConsumedStandard, lightHoursConsumedCustom)

\* one component of the elapsed-time display, `${n} ${u}`
Part(n, u) == [n |-> n, u |-> u]

breakdown_noDayRemainder(totalMinutes) ==
    LET days == totalMinutes \div (24 * 60)
        hours == totalMinutes \div 60
        minutes == jsRem(totalMinutes, 60)
    IN  [days |-> days, hours |-> hours, minutes |-> minutes]

\* days, hours and minutes of Math.floor(hoursSinceStartNow * 60)
breakdown(totalMinutes) ==
    LET days == totalMinutes \div (24 * 60)
        rest == jsRem(totalMinutes, 24 * 60)
        hours == rest \div 60
        minutes == jsRem(rest, 60)
    IN  [days |-> days, hours |-> hours, minutes |-> minutes]

displayOf_hoursOnlyIfPositive(days, hours, minutes) ==
    LET parts == (IF days > 0 THEN <<Part(days, "d")>> ELSE <<>>)
                 \o (IF hours > 0 THEN <<Part(hours, "h")>> ELSE <<>>)
                 \o (IF minutes > 0 /\ days = 0 /\ hours = 0
                        THEN <<Part(minutes, "m")>> ELSE <<>>)
    IN  IF Len(parts) > 0 THEN parts ELSE <<Part(0, "d")>>

\* the parts pushed in order and joined with ' y ', or '0 d' when there is none
displayOf(days, hours, minutes) ==
    LET parts == (IF days > 0 THEN <<Part(days, "d")>> ELSE <<>>)
                 \o (IF hours > 0 \/ (days = 0 /\ minutes > 0)
                        THEN <<Part(hours, "h")>> ELSE <<>>)
                 \o (IF minutes > 0 /\ days = 0 /\ hours = 0
                        THEN <<Part(minutes, "m")>> ELSE <<>>)
    IN  IF Len(parts) > 0 THEN parts ELSE <<Part(0, "d")>>

formattedTimeElapsed_noGuard ==
    LET b == breakdown((hoursSinceStartNow * 60) \div HOUR)
    IN  [days |-> b.days, hours |-> b.hours, minutes |-> b.minutes,
         display |-> displayOf(b.days, b.hours, b.minutes)]

formattedTimeElapsed ==
    IF hoursSinceStartNow < 0
        THEN [days |-> 0, hours |-> 0, minutes |-> 0, display |-> <<Part(0, "d")>>]
        ELSE LET b == breakdown((hoursSinceStartNow * 60) \div HOUR)
             IN  [days |-> b.days, hours |-> b.hours, minutes |-> b.minutes,
                  display |-> displayOf(b.days, b.hours, b.minutes)]

validateInputs_durationFirst ==
    IF startDate.kind = "empty" THEN "La fecha de inicio es requerida."
    ELSE IF startDate.kind # "date" THEN "Formato de fecha invalido."
    ELSE IF durationDays < H(1) THEN "Duracion debe ser >= 1 dia."
    ELSE IF hoursLight < 0 THEN "Horas de luz invalidas."
    ELSE IF hoursDark < 0 THEN "Horas de oscuridad invalidas."
    ELSE ""

\* validateInputs: the message it leaves in errorMsg ("" when every rule holds)
validateInputs ==
    IF startDate.kind = "empty" THEN "La fecha de inicio es requerida."
    ELSE IF startDate.kind # "date" THEN "Formato de fecha invalido."
    ELSE IF hoursLight < 0 THEN "Horas de luz invalidas."
    ELSE IF hoursDark < 0 THEN "Horas de oscuridad invalidas."
    ELSE IF durationDays < H(1) THEN "Duracion debe ser >= 1 dia."
    ELSE ""

\* const days = clamp(Number(durationDays) || 0, 1, 9999), for a value v of
\* durationDays
calendarDaysOf_inputClamp(v) == clamp(OrZero(Number(v)), H(InputMin), H(InputMax))

calendarDaysOf(v) == clamp(OrZero(Number(v)), H(MinDays), H(MaxDays))

calendarDays == calendarDaysOf(Num(durationDays))

\* the values of d for which the loop  for (d = 0; d < days; d++)  runs
RowIndices(days) == {d \in 0..(days \div Scale) : H(d) < days}

\* the row indices of the grid
calendarRows == RowIndices(calendarDays)

startOfDayStart == StartOfDay(startDateObj)

cellHoursSinceStart_sub(d, h) == H(d * 24) + H(h) - fractionalStartOffset

\* const hoursSinceStart = d * 24 + h + fractionalStartOffset
cellHoursSinceStart(d, h) == H(d * 24) + H(h) + fractionalStartOffset

\* row.push({ isLight, dateDisplay }); dateDisplay is the day of the row
calendarCell(d, h) ==
    [isLight |-> isLightAtAbsoluteHours(cellHoursSinceStart(d, h)),
     dateDisplay |-> startOfDayStart + d * DAY]

\* rows[d][h], for d a row index and h in 0..23
calendar == [d \in calendarRows |-> [h \in 0..23 |-> calendarCell(d, h)]]

\* the second variant of the component (src/unnamed/part_000, second file):
\* const hoursSinceStart = d * 24 + h - fractionalStartOffset
cellHoursSinceStartV2(d, h) == H(d * 24) + H(h) - fractionalStartOffset

calendarCellV2(d, h) ==
    [isLight |-> isLightAtAbsoluteHours(cellHoursSinceStartV2(d, h)),
     dateDisplay |-> startOfDayStart + d * DAY]

calendarV2 == [d \in calendarRows |-> [h \in 0..23 |-> calendarCellV2(d, h)]]

nextChangeEvent_swapped ==
    LET raw == IF isNowLight THEN cycleLength - currentInCycle
                             ELSE hoursLight - currentInCycle
        hoursToNext == IF raw < 0 THEN 0 ELSE raw
    IN  [hoursToNext |-> hoursToNext,
         nextState |-> IF isNowLight THEN "OFF" ELSE "ON",
         nextDate |-> now + hoursToNext]

\* next event calc
nextChangeEvent ==
    LET raw == IF isNowLight THEN hoursLight - currentInCycle
                             ELSE cycleLength - currentInCycle
        hoursToNext == IF raw < 0 THEN 0 ELSE raw
    IN  [hoursToNext |-> hoursToNext,
         nextState |-> IF isNowLight THEN "OFF" ELSE "ON",
         nextDate |-> now + hoursToNext]

\* (now.getTime() - startDateObj.getTime()) / (1000 * 60 * 60)
currentHoursElapsed == elapsedHours(now)

\* Math.floor(currentHoursElapsed / 24): the row given the class current-day-row
currentDayIndex24h == currentHoursElapsed \div DAY

\* Math.floor(diffHours / 24) for the wall clock currentDate read by the render
currentDayCycle(currentDate) == (currentDate - startOfDayStart) \div DAY

\* currentDate.getHours()
currentHourCycle(currentDate) == getHours(currentDate)

\* const isCurrent = d === currentDayCycle && h === currentHourCycle
isCurrent(d, h, currentDate) ==
    d = currentDayCycle(currentDate) /\ h = currentHourCycle(currentDate)

----------------------------------------------------------------------------
(* The component *)

\* useState: the four fields, now, errorMsg; the validation effect of the
\* mount has still to run
InitWith(item) ==
    /\ now \in InitInstants
    /\ startDate = fmtDateTimeLocal(StartOfDay(now))
    /\ startDateObj = ParseStart(startDate, now)
    /\ hoursLight = H(DefaultHoursLight)
    /\ hoursDark = H(DefaultHoursDark)
    /\ durationDays = H(DefaultDurationDays)
    /\ errorMsg = ""
    /\ validationPending = TRUE
    /\ alert = ""
    /\ storage = item
    /\ saveTimers = {}
    /\ mounted = FALSE
    /\ isExporting = FALSE
    /\ exportTask = "idle"

\* a first visit: nothing is stored under STORAGE_KEY
Init == InitWith(NoItem)

\* the re-render after the handlers: startDateObj is recomputed only when the
\* string changed (useMemo on [startDate])
StartDateObjNext(s) ==
    IF s = startDate THEN {startDateObj}
                     ELSE {ParseStart(s, w) : w \in RenderInstants}

\* useEffect(() => { validateInputs(); }, [validateInputs]): the effect is
\* queued by a render in which one of the four fields changed
Rendered ==
    /\ validationPending' = (config' # config)
    /\ alert' = ""
    /\ UNCHANGED <<errorMsg, persistence, exporting>>

ValidateEffect_normalising ==
    /\ validationPending
    /\ errorMsg' = validateInputs
    /\ validationPending' = FALSE
    /\ durationDays' = Max(durationDays, H(MinDays))
    /\ UNCHANGED <<startDate, hoursLight, hoursDark, now, startDateObj>>
    /\ UNCHANGED <<alert, persistence, exporting>>

\* the queued effect runs before the next event: validateInputs() leaves its
\* message in errorMsg
ValidateEffect ==
    /\ validationPending
    /\ errorMsg' = validateInputs
    /\ validationPending' = FALSE
    /\ UNCHANGED <<startDate, hoursLight, hoursDark, durationDays, now, startDateObj>>
    /\ UNCHANGED <<alert, persistence, exporting>>

\* setInterval(() => setNow(new Date()), 30000)
Tick ==
    \E t \in TickInstants :
        /\ ~validationPending
        /\ t > now
        /\ now' = t
        /\ UNCHANGED <<startDate, hoursLight, hoursDark, durationDays, startDateObj>>
        /\ Rendered

\* onChange of the datetime-local input with the value s
SetStartDate(s) ==
    /\ ~validationPending
    /\ startDate' = s
    /\ startDateObj' \in StartDateObjNext(s)
    /\ UNCHANGED <<hoursLight, hoursDark, durationDays, now>>
    /\ Rendered

ChangeStartDate == \E s \in StartChoices : SetStartDate(s)

\* onChange of the number input i (0 light, 1 dark, 2 days) with the value v:
\* f.setter(clamp(Number(value), 0, 9999))
SetNumber(i, v) ==
    LET n == clamp(Number(v).n, H(InputMin), H(InputMax))
    IN  /\ ~validationPending
        /\ hoursLight' = IF i = 0 THEN n ELSE hoursLight
        /\ hoursDark' = IF i = 1 THEN n ELSE hoursDark
        /\ durationDays' = IF i = 2 THEN n ELSE durationDays
        /\ UNCHANGED <<startDate, now, startDateObj>>
        /\ Rendered

ChangeNumber == \E i \in 0..2 : \E v \in TypedValues(i) : SetNumber(i, v)

\* the value a number field has after  if (Number.isFinite(Number(x))) set(Number(x))
Imported(x, old) == IF NumberIsFinite(Number(x)) THEN Number(x).n ELSE old

\* if (obj.startDate) setStartDate(String(obj.startDate))
ImportedStart(x, old) == IF x.k = "str" /\ x.s # StartEmpty THEN x.s ELSE old

\* the four fields after the setters of an import of the parsed object p into
\* the configuration c
ImportedConfig(p, c) ==
    <<ImportedStart(p.startDate, c[1]), Imported(p.hoursLight, c[2]),
      Imported(p.hoursDark, c[3]), Imported(p.durationDays, c[4])>>

\* JSON.stringify({ startDate, hoursLight, hoursDark, durationDays }) for the
\* configuration c, as the value JSON.parse reads back
jsonOf(c) ==
    [kind |-> "object", startDate |-> [k |-> "str", s |-> c[1]],
     hoursLight |-> Num(c[2]), hoursDark |-> Num(c[3]), durationDays |-> Num(c[4])]

\* the content of the file handleExport downloads
handleExport == jsonOf(config)

ImportPayload_resetOnFailure(p) ==
    /\ ~validationPending
    /\ IF p.kind # "object"
         THEN /\ alert' = "Archivo invalido o con formato incorrecto."
              /\ hoursLight' = H(DefaultHoursLight)
              /\ hoursDark' = H(DefaultHoursDark)
              /\ durationDays' = H(DefaultDurationDays)
              /\ UNCHANGED <<startDate, now, startDateObj, errorMsg>>
              /\ validationPending' = (config' # config)
              /\ UNCHANGED <<persistence, exporting>>
         ELSE /\ startDate' = ImportedStart(p.startDate, startDate)
              /\ hoursLight' = Imported(p.hoursLight, hoursLight)
              /\ hoursDark' = Imported(p.hoursDark, hoursDark)
              /\ durationDays' = Imported(p.durationDays, durationDays)
              /\ startDateObj' \in StartDateObjNext(startDate')
              /\ UNCHANGED now
              /\ Rendered

\* reader.onload of handleImport for the file content p; JSON.parse throws on
\* an unparsable file and obj.startDate throws when the file holds null: both
\* end in the catch, which alerts
ImportPayload(p) ==
    /\ ~validationPending
    /\ IF p.kind # "object"
         THEN /\ alert' = "Archivo invalido o con formato incorrecto."
              /\ UNCHANGED <<config, now, startDateObj, errorMsg, validationPending>>
              /\ UNCHANGED <<persistence, exporting>>
         ELSE /\ startDate' = ImportedStart(p.startDate, startDate)
              /\ hoursLight' = Imported(p.hoursLight, hoursLight)
              /\ hoursDark' = Imported(p.hoursDark, hoursDark)
              /\ durationDays' = Imported(p.durationDays, durationDays)
              /\ startDateObj' \in StartDateObjNext(startDate')
              /\ UNCHANGED now
              /\ Rendered

HandleImport == \E p \in Payloads : ImportPayload(p)

ResetDefaults_settingNow ==
    \E w \in RenderInstants :
        /\ ~validationPending
        /\ startDate' = fmtDateTimeLocal(StartOfDay(w))
        /\ hoursLight' = H(DefaultHoursLight)
        /\ hoursDark' = H(DefaultHoursDark)
        /\ durationDays' = H(DefaultDurationDays)
        /\ startDateObj' \in StartDateObjNext(startDate')
        /\ now' = w
        /\ Rendered

\* resetDefaults: today at 00:00 and 13 / 14 / 60
ResetDefaults ==
    \E w \in RenderInstants :
        /\ ~validationPending
        /\ startDate' = fmtDateTimeLocal(StartOfDay(w))
        /\ hoursLight' = H(DefaultHoursLight)
        /\ hoursDark' = H(DefaultHoursDark)
        /\ durationDays' = H(DefaultDurationDays)
        /\ startDateObj' \in StartDateObjNext(startDate')
        /\ UNCHANGED now
        /\ Rendered

Next ==
    \/ Tick
    \/ ChangeStartDate
    \/ ChangeNumber
    \/ HandleImport
    \/ ResetDefaults
    \/ ValidateEffect

Spec == Init /\ [][Next]_vars

----------------------------------------------------------------------------
(* The component with its persistence: the load on mount and the debounced  *)
(* autosave.  The inputs are fewer than in Spec, the storage is modelled.   *)

\* what localStorage can hold at the mount: nothing, a text that is not JSON,
\* or a record saved earlier
StoredItems ==
    {NoItem,
     [kind |-> "unparsable", startDate |-> [k |-> "absent", s |-> StartEmpty],
      hoursLight |-> Absent, hoursDark |-> Absent, durationDays |-> Absent],
     jsonOf(<<StartEmpty, -H(5), H(12), H(1) + Half>>)}

\* the files imported in this specification
StorageImports ==
    {[kind |-> "unparsable", startDate |-> [k |-> "absent", s |-> StartEmpty],
      hoursLight |-> Absent, hoursDark |-> Absent, durationDays |-> Absent],
     [kind |-> "object", startDate |-> [k |-> "absent", s |-> StartEmpty],
      hoursLight |-> Null, hoursDark |-> Absent, durationDays |-> Absent]}

InitStorage == \E item \in StoredItems : InitWith(item)

\* the four fields after the load effect: if (!raw) return; if (!obj) return;
\* then the same setters as the import
LoadedConfig(item, c) == IF item.kind = "object" THEN ImportedConfig(item, c) ELSE c

\* the effects of the mount, in the order of the source: the load (its setters
\* take effect in the next render), the autosave (a timer with the payload of
\* the first render), the validation
MountEffects ==
    /\ validationPending /\ ~mounted
    /\ startDate' = LoadedConfig(storage, config)[1]
    /\ hoursLight' = LoadedConfig(storage, config)[2]
    /\ hoursDark' = LoadedConfig(storage, config)[3]
    /\ durationDays' = LoadedConfig(storage, config)[4]
    /\ startDateObj' \in StartDateObjNext(startDate')
    /\ saveTimers' = {config}
    /\ errorMsg' = validateInputs
    /\ validationPending' = (config' # config)
    /\ mounted' = TRUE
    /\ UNCHANGED <<now, alert, storage, exporting>>

\* the effects of a render in which a field changed: the cleanup of the
\* autosave clears its timer, the autosave sets a new one with the payload of
\* this render, the validation runs
Effects ==
    /\ validationPending /\ mounted
    /\ saveTimers' = {config}
    /\ errorMsg' = validateInputs
    /\ validationPending' = FALSE
    /\ UNCHANGED <<startDate, hoursLight, hoursDark, durationDays, now, startDateObj>>
    /\ UNCHANGED <<alert, storage, mounted, exporting>>

\* the callback of a pending timer: localStorage.setItem(STORAGE_KEY,
\* JSON.stringify(payload)), which can throw (ok = FALSE) and is then only
\* logged.  The callback is a task of its own: useEffect is deferred until
\* after the render is committed, so the callback can also run between the
\* commit of a render and the effects of that render.
SaveTimer(p, ok) ==
    /\ p \in saveTimers
    /\ saveTimers' = saveTimers \ {p}
    /\ storage' = IF ok THEN jsonOf(p) ELSE storage
    /\ alert' = ""
    /\ UNCHANGED <<startDate, hoursLight, hoursDark, durationDays, now, startDateObj>>
    /\ UNCHANGED <<errorMsg, validationPending, mounted, exporting>>

SaveTimerFires == \E p \in saveTimers : \E ok \in BOOLEAN : SaveTimer(p, ok)

EditField == \E i \in 0..2 : SetNumber(i, NumStr(H(12)))

ClearStartDate == SetStartDate(StartEmpty)

ImportFile == \E p \in StorageImports : ImportPayload(p)

NextStorage ==
    \/ MountEffects
    \/ Effects
    \/ SaveTimerFires
    \/ EditField
    \/ ClearStartDate
    \/ ImportFile
    \/ ResetDefaults

SpecStorage == InitStorage /\ [][NextStorage]_vars

----------------------------------------------------------------------------
(* The component with the calendar download and its guard isExporting *)

\* handleDownloadPDF up to its first await: the guard, setIsExporting(true),
\* and the lookup of the calendar node, which returns after an alert when the
\* node is not found
HandleDownloadPDF ==
    \E found \in BOOLEAN :
        /\ ~validationPending
        /\ IF isExporting
             THEN UNCHANGED vars
             ELSE /\ isExporting' = TRUE
                  /\ exportTask' = IF found THEN "running" ELSE "idle"
                  /\ alert' = IF found THEN "" ELSE "No se encontro el calendario."
                  /\ UNCHANGED <<startDate, hoursLight, hoursDark, durationDays, now>>
                  /\ UNCHANGED <<startDateObj, errorMsg, validationPending, persistence>>

\* the awaited capture settles: the try block ends or the catch alerts, and
\* the finally removes the overlay and sets the timer of the release
ExportSettles ==
    \E ok \in BOOLEAN :
        /\ exportTask = "running"
        /\ exportTask' = "releasing"
        /\ alert' = IF ok THEN "" ELSE "Ocurrio un error al generar la descarga."
        /\ UNCHANGED <<startDate, hoursLight, hoursDark, durationDays, now>>
        /\ UNCHANGED <<startDateObj, errorMsg, validationPending, persistence, isExporting>>

\* setTimeout(() => setIsExporting(false), 800)
ReleaseExport ==
    /\ exportTask = "releasing"
    /\ exportTask' = "idle"
    /\ isExporting' = FALSE
    /\ alert' = ""
    /\ UNCHANGED <<startDate, hoursLight, hoursDark, durationDays, now>>
    /\ UNCHANGED <<startDateObj, errorMsg, validationPending, persistence>>

NextExport ==
    \/ ValidateEffect
    \/ Tick
    \/ ChangeStartDate
    \/ HandleDownloadPDF
    \/ ExportSettles
    \/ ReleaseExport

\* a promise that was awaited settles and a timer that was set fires
SpecExport ==
    /\ Init
    /\ [][NextExport]_vars
    /\ WF_vars(ExportSettles)
    /\ WF_vars(ReleaseExport)

----------------------------------------------------------------------------
(* Properties *)

\* the rows and cells the grid properties look at
Rows == {d \in 0..(CheckedRows - 1) : d \in calendarRows}
Hours == 0..23
rowCount == Cardinality(calendarRows)

\* floor-modulo position of an offset, written with the mathematical modulus
FloorPosition(x) == x % cycleLength

\* C1: for every elapsedHours (also negative ones, before the start) the phase
\* position ((e mod c) + c) mod c lies in [0, cycleLength), for the live clock
\* and for the offsets of the grid cells of both grid builders.
C1_PositionInRange ==
    /\ 0 <= currentInCycle /\ currentInCycle < cycleLength
    /\ currentInCycle = FloorPosition(hoursSinceStartNow)
    /\ \A d \in Rows : \A h \in Hours :
          /\ 0 <= inCycle(cellHoursSinceStart(d, h))
          /\ inCycle(cellHoursSinceStart(d, h)) < cycleLength
          /\ 0 <= inCycle(cellHoursSinceStartV2(d, h))
          /\ inCycle(cellHoursSinceStartV2(d, h)) < cycleLength

\* a render before the start instant, at an elapsed time that is no multiple
\* of the cycle
C1_Witness ==
    /\ hoursSinceStartNow < 0
    /\ jsRem(hoursSinceStartNow, cycleLength) < 0
    /\ currentInCycle > 0

\* C2 (as claimed): for every config, at now = start + lightHours exactly the
\* phase is dark.
C2_BoundaryIsDark == (now = startDateObj + hoursLight) => ~isNowLight

\* C2 (amended): for every config with darkHours > 0, at now = start +
\* lightHours exactly the phase is dark (the test is the strict <); with
\* darkHours = 0 and lightHours > 0 the same instant is light.
C2_BoundaryIsDarkWhenDarkPositive ==
    (now = startDateObj + hoursLight) =>
        /\ hoursDark > 0 => ~isNowLight
        /\ (hoursDark = 0 /\ hoursLight > 0) => isNowLight

C2_Witness ==
    /\ hoursLight = H(13) /\ hoursDark = H(14)
    /\ now = startDateObj + H(13)
    /\ ~isNowLight

\* C3: every grid cell (d, h) shows the phase the clock computes for the
\* instant the cell stands for, local midnight of the start day + d days + h
\* hours.
C3_GridAgreesWithClock ==
    \A d \in Rows : \A h \in Hours :
        calendarCell(d, h).isLight = isLightAtInstant(startOfDayStart + d * DAY + H(h))

\* C4 (as claimed): in every grid builder the cell (d, h) is light iff the
\* floor-modulo position of d*24 + h + fractionalStartOffset is below lightHours.
C4_OffsetAddedEverywhere ==
    \A d \in Rows : \A h \in Hours :
        /\ calendarCell(d, h).isLight
             = (FloorPosition(H(d * 24) + H(h) + fractionalStartOffset) < hoursLight)
        /\ calendarCellV2(d, h).isLight
             = (FloorPosition(H(d * 24) + H(h) + fractionalStartOffset) < hoursLight)

\* C4 (amended): the grid of src/src/App.jsx (and of the first variant) adds
\* fractionalStartOffset; the grid of the second variant subtracts it.
C4_OffsetAddedInAppSubtractedInVariant ==
    \A d \in Rows : \A h \in Hours :
        /\ calendarCell(d, h).isLight
             = (FloorPosition(H(d * 24) + H(h) + fractionalStartOffset) < hoursLight)
        /\ calendarCellV2(d, h).isLight
             = (FloorPosition(H(d * 24) + H(h) - fractionalStartOffset) < hoursLight)

\* a start that is not at midnight, where the two builders differ in a cell
C4_Witness ==
    /\ fractionalStartOffset > 0
    /\ \E d \in Rows : \E h \in Hours : calendarCell(d, h).isLight # calendarCellV2(d, h).isLight

\* C5: the grid has exactly durationDays rows (clamped to [1, 9999]), each of
\* 24 cells.
C5_RowCountIsDuration ==
    /\ H(rowCount) = clamp(durationDays, H(MinDays), H(MaxDays))
    /\ \A d \in Rows : DOMAIN calendar[d] = Hours

\* a value that is no number: undefined, a non-numeric string, NaN
NonNumeric == {Absent, Str, NaN}

\* C6: a durationDays below 1 (0, a negative value) or one that is no number
\* gives a grid of exactly 1 row; one above 9999 gives exactly 9999 rows.
C6_DurationClamped ==
    /\ durationDays < H(1) => rowCount = 1
    /\ durationDays > H(9999) => rowCount = 9999
    /\ \A v \in NonNumeric : RowIndices(calendarDaysOf(v)) = {0}

C6_Witness == durationDays = 0 /\ rowCount = 1

\* C7: with the start at local midnight, 12 h light, 12 h dark and 2 days the
\* grid has hours 0..11 light and 12..23 dark in day 0 and in day 1; whenever
\* cycleLength = 24 every row equals row 0.
C7_DailyPattern ==
    /\ (fractionalStartOffset = 0 /\ hoursLight = H(12) /\ hoursDark = H(12)
          /\ durationDays = H(2)) =>
          /\ calendarRows = {0, 1}
          /\ \A d \in {0, 1} : \A h \in Hours : calendarCell(d, h).isLight = (h < 12)
    /\ cycleLength = DAY =>
          \A d \in Rows : \A h \in Hours : calendarCell(d, h).isLight = calendarCell(0, h).isLight

C7_Witness ==
    /\ fractionalStartOffset = 0 /\ hoursLight = H(12) /\ hoursDark = H(12)
    /\ durationDays = H(2)
    /\ calendarCell(1, 11).isLight /\ ~calendarCell(1, 12).isLight

\* C8: when lightHours + darkHours <= 0 the cycle length is the positive
\* epsilon, so no modulo is by zero; with lightHours = 0 and darkHours = 0 the
\* live phase and every grid cell are dark.
C8_EpsilonCycle ==
    /\ hoursLight + hoursDark <= 0 => cycleLength = Epsilon
    /\ cycleLength > 0
    /\ (hoursLight = 0 /\ hoursDark = 0) =>
          /\ ~isNowLight
          /\ \A d \in Rows : \A h \in Hours : ~calendarCell(d, h).isLight

C8_Witness ==
    /\ hoursLight = 0 /\ hoursDark = 0
    /\ cycleLength = Epsilon
    /\ ~isNowLight

C10_NextTransition ==
    LET position == FloorPosition(hoursSinceStartNow)
    IN  /\ position < hoursLight =>
              /\ nextChangeEvent.nextState = "OFF"
              /\ nextChangeEvent.hoursToNext = hoursLight - position
        /\ ~(position < hoursLight) =>
              /\ nextChangeEvent.nextState = "ON"
              /\ nextChangeEvent.hoursToNext = cycleLength - position

C10_Witness ==
    /\ isNowLight
    /\ nextChangeEvent.nextState = "OFF"
    /\ nextChangeEvent.hoursToNext = hoursLight - currentInCycle
    /\ nextChangeEvent.hoursToNext < hoursLight

\* C11 (as claimed): with lightHours = darkHours, whatever non-negative value
\* they have, energyBalance is 0 at every elapsedHours >= 0.
C11_EqualHoursBalanceZero ==
    (hoursLight = hoursDark /\ hoursLight >= 0 /\ hoursSinceStartNow >= 0)
        => energyBalance.num = 0

\* C11 (amended): with lightHours = darkHours > 0 energyBalance is 0 at every
\* elapsedHours >= 0; with lightHours = darkHours = 0 the cycle length is the
\* epsilon and energyBalance is 0.5 * elapsedHours.
C11_EqualPositiveHoursBalanceZero ==
    (hoursLight = hoursDark /\ hoursSinceStartNow >= 0) =>
        /\ hoursLight > 0 => (energyBalance.num = 0 /\ energyBalance.den > 0)
        /\ hoursLight = 0 =>
              energyBalance.num * 2 = hoursSinceStartNow * energyBalance.den

C11_Witness ==
    /\ hoursLight = H(12) /\ hoursDark = H(12)
    /\ hoursSinceStartNow > 0
    /\ energyBalance.num = 0

\* light hours a schedule of L light hours per cycle of c hours, started at
\* the start instant, has delivered after t hours (isLight integrated)
LightDelivered(t, L, c) == (t \div c) * L + Min(t % c, L)

ReferenceLight(t) == LightDelivered(t, H(12), DAY)

ConfiguredLight(t) == LightDelivered(t, hoursLight, cycleLength)

\* C12 (as claimed): for every valid config and whole-hour elapsedHours >= 0,
\* energyBalance is the light a 12/12 reference delivered since the start
\* minus the light the configured schedule delivered.
C12_BalanceIsIntegratedDeviation ==
    (validateInputs = "" /\ hoursSinceStartNow >= 0 /\ hoursSinceStartNow % HOUR = 0) =>
        energyBalance.num
          = (ReferenceLight(hoursSinceStartNow) - ConfiguredLight(hoursSinceStartNow))
              * energyBalance.den

\* C12 (amended): for every valid config and elapsedHours >= 0, energyBalance
\* is the deviation at average rates, t/2 - (lightHours/cycleLength) * t; it is
\* the integrated deviation when t is a whole number of days and of cycles;
\* for t > 0 it is positive exactly when lightHours/cycleLength < 1/2.
C12_BalanceIsAverageDeviation ==
    (validateInputs = "" /\ hoursSinceStartNow >= 0) =>
        LET t == hoursSinceStartNow
        IN  /\ energyBalance.den = 2 * cycleLength
            /\ energyBalance.num = t * (cycleLength - 2 * hoursLight)
            /\ (t % DAY = 0 /\ t % cycleLength = 0) =>
                  energyBalance.num
                    = (ReferenceLight(t) - ConfiguredLight(t)) * energyBalance.den
            /\ t > 0 => (energyBalance.num > 0 <=> 2 * hoursLight < cycleLength)

C12_Witness ==
    /\ validateInputs = ""
    /\ hoursSinceStartNow = DAY
    /\ hoursLight = H(12) /\ hoursDark = 0
    /\ ReferenceLight(DAY) = H(12) /\ ConfiguredLight(DAY) = H(24)
    /\ energyBalance.num = -H(12) * energyBalance.den

\* C13: energyBalance is 0 at every instant at or before the start instant.
C13_BalanceZeroUntilStart == hoursSinceStartNow <= 0 => energyBalance.num = 0

C13_Witness ==
    /\ hoursSinceStartNow < 0
    /\ cycleLength # 2 * hoursLight
    /\ energyBalance.num = 0

\* the display has a part with unit u
Shown(u) ==
    \E i \in DOMAIN formattedTimeElapsed.display : formattedTimeElapsed.display[i].u = u

\* C14: the display has the days part iff days > 0, the hours part iff
\* hours > 0 or (days = 0 and minutes > 0), the minutes part iff minutes > 0
\* and days = 0 and hours = 0, in this order, and is "0 d" when no part
\* qualifies; under one hour it is "0 h" followed by the minutes, and the
\* minutes are never shown once days > 0 or hours > 0.
C14_DisplayComposition ==
    LET f == formattedTimeElapsed
        daysPart == f.days > 0
        hoursPart == f.hours > 0 \/ (f.days = 0 /\ f.minutes > 0)
        minutesPart == f.minutes > 0 /\ f.days = 0 /\ f.hours = 0
        count == (IF daysPart THEN 1 ELSE 0) + (IF hoursPart THEN 1 ELSE 0)
                   + (IF minutesPart THEN 1 ELSE 0)
    IN  /\ count = 0 => f.display = <<Part(0, "d")>>
        /\ count > 0 =>
              /\ Len(f.display) = count
              /\ Shown("d") <=> daysPart
              /\ Shown("h") <=> hoursPart
              /\ Shown("m") <=> minutesPart
              /\ daysPart => f.display[1] = Part(f.days, "d")
              /\ hoursPart => f.display[IF daysPart THEN 2 ELSE 1] = Part(f.hours, "h")
              /\ minutesPart => f.display[count] = Part(f.minutes, "m")
        /\ (hoursSinceStartNow >= 0 /\ hoursSinceStartNow < HOUR /\ f.minutes > 0) =>
              f.display = <<Part(0, "h"), Part(f.minutes, "m")>>
        /\ (f.days > 0 \/ f.hours > 0) => ~Shown("m")

C14_Witness ==
    /\ hoursSinceStartNow = Half
    /\ formattedTimeElapsed.display = <<Part(0, "h"), Part(30, "m")>>

\* C15: for every elapsedHours >= 0 the breakdown satisfies
\* days*1440 + hours*60 + minutes = floor(elapsedHours*60), 0 <= hours < 24,
\* 0 <= minutes < 60 and days >= 0.
C15_BreakdownSum ==
    hoursSinceStartNow >= 0 =>
        LET f == formattedTimeElapsed
        IN  /\ f.days * 1440 + f.hours * 60 + f.minutes = (hoursSinceStartNow * 60) \div HOUR
            /\ 0 <= f.hours /\ f.hours < 24
            /\ 0 <= f.minutes /\ f.minutes < 60
            /\ f.days >= 0

C15_Witness ==
    /\ hoursSinceStartNow = H(37) + Half
    /\ formattedTimeElapsed.days = 1
    /\ formattedTimeElapsed.hours = 13
    /\ formattedTimeElapsed.minutes = 30

\* C16: for every elapsedHours < 0 the formatter returns days = 0, hours = 0,
\* minutes = 0 and the display "0 d".
C16_BeforeStartAllZero ==
    hoursSinceStartNow < 0 =>
        formattedTimeElapsed
          = [days |-> 0, hours |-> 0, minutes |-> 0, display |-> <<Part(0, "d")>>]

C16_Witness ==
    /\ hoursSinceStartNow <= -HOUR
    /\ formattedTimeElapsed.display = <<Part(0, "d")>>
    /\ formattedTimeElapsed.hours = 0

\* the rules of validation, in their order, and the message of each
StartMissing == startDate = StartEmpty
StartUnparsable == startDate = StartBad
LightInvalid == hoursLight < 0
DarkInvalid == hoursDark < 0
DurationInvalid == durationDays < H(1)

RuleViolated ==
    <<StartMissing, StartUnparsable, LightInvalid, DarkInvalid, DurationInvalid>>

RuleMessage ==
    <<"La fecha de inicio es requerida.", "Formato de fecha invalido.",
      "Horas de luz invalidas.", "Horas de oscuridad invalidas.",
      "Duracion debe ser >= 1 dia.">>

\* C17: once validation has run, the error message is the message of the
\* first violated rule in the order start missing, start unparsable, light
\* hours < 0, dark hours < 0, duration < 1, whatever later rules are violated
\* too, and it is empty iff every rule holds.
C17_FirstViolatedRuleReported ==
    ~validationPending =>
        /\ \A i \in 1..5 :
              (RuleViolated[i] /\ \A j \in 1..(i - 1) : ~RuleViolated[j])
                  => errorMsg = RuleMessage[i]
        /\ errorMsg = "" <=> \A i \in 1..5 : ~RuleViolated[i]
        /\ errorMsg # "" => \E i \in 1..5 : errorMsg = RuleMessage[i]

C17_Witness ==
    /\ ~validationPending
    /\ ~StartMissing /\ ~StartUnparsable
    /\ LightInvalid /\ DarkInvalid /\ DurationInvalid
    /\ errorMsg = "Horas de luz invalidas."

\* C18: a run of validation, passing or failing, leaves startDate, hoursLight,
\* hoursDark and durationDays (and everything but the error message) unchanged.
C18_ValidationKeepsConfig ==
    [][(validationPending /\ ~validationPending') =>
           /\ config' = config
           /\ now' = now
           /\ startDateObj' = startDateObj]_vars

C18_Witness ==
    /\ ~validationPending
    /\ errorMsg = "Duracion debe ser >= 1 dia."
    /\ durationDays = 0

\* C19: a config that fails validation still evaluates completely: the cycle
\* length is positive, the position is in [0, cycleLength), the grid has at
\* least one row and every row 24 cells, hoursToNext is >= 0, and the energy
\* balance and the elapsed-time breakdown are defined.
C19_InvalidConfigStillEvaluated ==
    validateInputs # "" =>
        /\ cycleLength > 0
        /\ 0 <= currentInCycle /\ currentInCycle < cycleLength
        /\ isNowLight \in BOOLEAN
        /\ rowCount >= 1
        /\ \A d \in Rows : \A h \in Hours : calendarCell(d, h).isLight \in BOOLEAN
        /\ nextChangeEvent.hoursToNext >= 0
        /\ energyBalance.den > 0
        /\ formattedTimeElapsed.days >= 0
        /\ Len(formattedTimeElapsed.display) >= 1

C19_Witness ==
    /\ startDate = StartEmpty
    /\ hoursLight < 0 /\ hoursDark < 0
    /\ durationDays < H(1)
    /\ cycleLength = Epsilon
    /\ rowCount = 1

\* the field of the live config is kept when the payload's value x is absent,
\* null or not numeric
KeptUnlessNumeric(x, old, new) == x.k \in {"absent", "null", "str"} => new = old

\* C20 (as claimed): an import overwrites a field only if the payload's value
\* is present and numeric (startDate: present and a valid date string); an
\* absent, null or malformed value leaves the field unchanged.
C20_ImportFieldTolerant ==
    [][\A p \in Payloads :
          (p.kind = "object" /\ ImportPayload(p)) =>
              /\ p.startDate.s.kind # "date" => startDate' = startDate
              /\ KeptUnlessNumeric(p.hoursLight, hoursLight, hoursLight')
              /\ KeptUnlessNumeric(p.hoursDark, hoursDark, hoursDark')
              /\ KeptUnlessNumeric(p.durationDays, durationDays, durationDays')]_vars

\* C21: an import of an unparsable source is reported (the alert) and a
\* step that reports it leaves the four fields, and everything derived from
\* them, exactly as they were.
C21_FailedImportKeepsConfig ==
    [][/\ \A p \in Payloads :
             (p.kind = "unparsable" /\ ImportPayload(p))
                 => alert' = "Archivo invalido o con formato incorrecto."
       /\ alert' = "Archivo invalido o con formato incorrecto."
             => (config' = config /\ startDateObj' = startDateObj /\ errorMsg' = errorMsg)]_vars

C21_Witness ==
    /\ alert = "Archivo invalido o con formato incorrecto."
    /\ startDate = StartEmpty
    /\ hoursLight = 0 /\ hoursDark = -H(5) /\ durationDays = H(1) + Half

\* C22 (as claimed): the file exported from a configuration C, imported when
\* the live configuration is D, gives C in all four fields; here C and D are
\* the configurations before and after any step.
C22_ExportImportRoundTrip ==
    [][ImportedConfig(handleExport, config') = config]_vars

\* the time of day of the instant t, as fractionalStartOffset computes it
FractionalOffsetOf(t) ==
    getHours(t) * HOUR + ((getMinutes(t) * 60 + getSeconds(t)) * HOUR) \div 3600

\* the start instant an evaluation of the configuration made now would use
FreshStartDateObj == ParseStart(startDate, now)

\* C23 (as claimed): the grid on display is the grid an evaluation of the same
\* four fields made at the current instant gives, also when the start is
\* missing or unparsable.
C23_GridIsFunctionOfConfig ==
    \A d \in Rows : \A h \in Hours :
        calendarCell(d, h)
          = [isLight |-> isLightAtAbsoluteHours(
                             H(d * 24) + H(h) + FractionalOffsetOf(FreshStartDateObj)),
             dateDisplay |-> StartOfDay(FreshStartDateObj) + d * DAY]

\* C24: a timer tick changes only the current instant, and an edit, an
\* import or a reset changes only configuration fields: no step writes both
\* the current instant and a configuration field.
C24_SeparateWriters ==
    [][/\ Tick => (config' = config /\ startDateObj' = startDateObj)
       /\ (ChangeStartDate \/ ChangeNumber \/ HandleImport \/ ResetDefaults) => now' = now
       /\ ~(now' # now /\ config' # config)]_vars

C24_Witness ==
    /\ now = H(37) + Half
    /\ startDate = StartEmpty
    /\ hoursLight = H(12) /\ hoursDark = -H(5)

\* C25 (as claimed): in every reachable state hoursLight >= 0, hoursDark >= 0
\* and durationDays is an integer in [1, 9999].
C25_ConfigInRange ==
    /\ hoursLight >= 0
    /\ hoursDark >= 0
    /\ durationDays % Scale = 0
    /\ H(MinDays) <= durationDays /\ durationDays <= H(MaxDays)

\* C26 (as claimed): for every config that passes validation the phase at
\* now + hoursToNext is the predicted one: light when nextState is ON, dark
\* when it is OFF.
C26_PredictionCorrect ==
    validateInputs = "" =>
        (isLightAtInstant(nextChangeEvent.nextDate) <=> nextChangeEvent.nextState = "ON")

\* C27: for every config the phase is the same at every instant from now up
\* to, not including, now + hoursToNext.
C27_NoTransitionMissed ==
    \A k \in 0..(nextChangeEvent.hoursToNext - 1) :
        isLightAtInstant(now + k) = isNowLight

C27_Witness ==
    /\ hoursLight > 0 /\ hoursDark > 0
    /\ isNowLight
    /\ currentInCycle > 0
    /\ nextChangeEvent.hoursToNext > H(3)
    /\ ~isLightAtInstant(now + nextChangeEvent.hoursToNext)

\* C28 (as claimed): the cell marked current lies in the row marked current
\* day, and at most one cell is marked current.
C28_CurrentCellInCurrentRow ==
    \A currentDate \in RenderInstants :
        /\ currentDayCycle(currentDate) = currentDayIndex24h
        /\ \A d1, d2 \in Rows : \A h1, h2 \in Hours :
              (isCurrent(d1, h1, currentDate) /\ isCurrent(d2, h2, currentDate))
                  => (d1 = d2 /\ h1 = h2)

\* C29 (as claimed): whenever a write to the storage happens, the record
\* written is the live configuration of that moment.
C29_NoStaleSave ==
    [][\A p \in saveTimers : SaveTimer(p, TRUE) => storage' = jsonOf(config)]_vars

\* C30 (as claimed): whenever isExporting is true it eventually becomes false
\* again.
C30_GuardReleased == isExporting ~> ~isExporting
====
